---------------------------- MODULE Spec2Model ----------------------------
(***************************************************************************)
(* Model of the report generator (generate_all.py, generate_xibao.py,     *)
(* generate_with_images.py): placeholder substitution over the runs of a  *)
(* paragraph, aggregation of the records into ranked group totals,        *)
(* pagination, and the orchestration of generate_full_report.             *)
(*                                                                         *)
(* Text is modelled as a sequence of one-character strings, so that       *)
(* Python's `in` and str.replace are computed character by character.     *)
(***************************************************************************)
EXTENDS Integers, Sequences, FiniteSets, TLC

VARIABLES
    \* replace_placeholders_in_paragraph
    runs,        \* paragraph.runs: sequence of [rPr, text]
    runs0,       \* the runs as they were when the call started
    key_map,     \* the dict, as the sequence of its items in iteration order
    i,           \* the loop index (0-based, as in the code)
    ppc,         \* position of the call: "idle", "loop", "done"
    \* the records read from the data file
    rows,
    \* group_data_for_zhanbao
    ri,          \* number of records folded in so far
    groups,      \* the defaultdict, as the sequence of its items in insertion order
    result,      \* the returned list of rows
    apc,         \* position of the call: "idle", "fold", "raised", "done"
    \* generate_full_report
    data_file,        \* the data file: [ext, records]
    output_path,      \* name of the output file
    fs,               \* the files on disk: name -> document (a sequence of slides)
    pc,               \* position of the call
    slide_i,          \* index i of the loop over split_templates
    split_templates,  \* names of the single-slide templates
    part_files,       \* names of the parts produced so far
    final_prs,        \* the merged document
    ret,              \* the value returned (-1: none yet)
    grouped,          \* process_summary_template: the sorted group rows
    pages,            \* process_summary_template: the pages
    \* fill_zhanbao_slide
    text_frames, \* the paragraphs of the text frames of the slide
    tables,      \* the tables of the slide: table -> row -> cell -> run
    tables0,     \* the tables as they were when the call started
    page_data,   \* the group rows of the page
    ti,          \* number of table shapes visited so far
    fpc,         \* position of the call: "idle", "dates", "tables", "done"
    \* get_date_range
    dates,       \* the list of parsed dates
    di,          \* number of records visited so far
    date_range,  \* the returned pair
    dpc,         \* position of the call: "idle", "scan", "raised", "done"
    \* detect_template_type
    det_prs,     \* the document: a sequence of slides
    det_type,    \* the returned type ("" : none yet)
    \* copy_slides_from_pptx, for one slide of the source
    src_rels,    \* src_slide.part.rels.values(): sequence of [rId, reltype, target, external]
    new_rels,    \* new_slide.part.rels, in the same form
    rId_map,     \* the dict old id -> new id
    attrs,       \* the attributes of the copied elements, in iteration order: [ns, value]
    attrs0,      \* the attributes as they are in the source slide
    cr,          \* number of relationships visited so far
    ca,          \* number of attributes visited so far
    cpc,         \* position of the call: "idle", "rels", "attrs", "done"
    \* the GUI (AllReportsApp, XibaoApp)
    app,         \* which program runs: "all", "images", "xibao"
    export_imgs, \* export_imgs_var of the image variant
    gen_btn,     \* state of the generate button
    gen_zb_btn,  \* state of the second generate button of XibaoApp ("none" elsewhere)
    workers,     \* the threads that are running: set of [kind, step]
    after_q,     \* the callbacks queued with root.after(0, ...), oldest first
    clicks,      \* number of clicks on a generate button so far
    progress,    \* the value of the progress bar
    status       \* status_var

paraVars == <<runs, runs0, key_map, i, ppc>>
aggVars == <<ri, groups, result, apc>>
repVars == <<data_file, output_path, fs, pc, slide_i, split_templates, part_files,
             final_prs, ret, grouped, pages>>

fillVars == <<text_frames, tables, tables0, page_data, ti, fpc>>
dateVars == <<dates, di, date_range, dpc>>
detVars == <<det_prs, det_type>>
copyVars == <<src_rels, new_rels, rId_map, attrs, attrs0, cr, ca, cpc>>
guiVars == <<app, export_imgs, gen_btn, gen_zb_btn, workers, after_q, clicks, progress, status>>

vars == <<runs, runs0, key_map, i, ppc, rows, ri, groups, result, apc,
          data_file, output_path, fs, pc, slide_i, split_templates, part_files,
          final_prs, ret, grouped, pages,
          text_frames, tables, tables0, page_data, ti, fpc,
          dates, di, date_range, dpc, det_prs, det_type,
          src_rels, new_rels, rId_map, attrs, attrs0, cr, ca, cpc,
          app, export_imgs, gen_btn, gen_zb_btn, workers, after_q, clicks, progress, status>>

\* what the actions of one function leave alone of the other functions
xPara == <<rows, aggVars, repVars, fillVars, dateVars, detVars, copyVars, guiVars>>
xAgg == <<paraVars, repVars, fillVars, dateVars, detVars, copyVars, guiVars>>
xRep == <<paraVars, aggVars, fillVars, dateVars, detVars, copyVars, guiVars>>
xFill == <<rows, paraVars, aggVars, repVars, dateVars, detVars, copyVars, guiVars>>
xDate == <<paraVars, aggVars, repVars, fillVars, detVars, copyVars, guiVars>>
xDet == <<rows, paraVars, aggVars, repVars, fillVars, dateVars, copyVars, guiVars>>
xCopy == <<rows, paraVars, aggVars, repVars, fillVars, dateVars, detVars, guiVars>>
xGui == <<rows, paraVars, aggVars, repVars, fillVars, dateVars, detVars, copyVars>>

ParaIdle ==
    /\ runs = <<>>
    /\ runs0 = <<>>
    /\ key_map = <<>>
    /\ i = 0
    /\ ppc = "idle"

AggIdle ==
    /\ ri = 0
    /\ groups = <<>>
    /\ result = <<>>
    /\ apc = "idle"

RepIdle ==
    /\ data_file = [ext |-> ".csv", records |-> <<>>]
    /\ output_path = <<"out", 0, 0>>
    /\ fs = <<>>
    /\ pc = "idle"
    /\ slide_i = 0
    /\ split_templates = <<>>
    /\ part_files = <<>>
    /\ final_prs = <<>>
    /\ ret = -1
    /\ grouped = <<>>
    /\ pages = <<>>

FillIdle ==
    /\ text_frames = <<>>
    /\ tables = <<>>
    /\ tables0 = <<>>
    /\ page_data = <<>>
    /\ ti = 0
    /\ fpc = "idle"

DateIdle ==
    /\ dates = <<>>
    /\ di = 0
    /\ date_range = <<>>
    /\ dpc = "idle"

DetIdle ==
    /\ det_prs = <<>>
    /\ det_type = ""

CopyIdle ==
    /\ src_rels = <<>>
    /\ new_rels = <<>>
    /\ rId_map = <<>>
    /\ attrs = <<>>
    /\ attrs0 = <<>>
    /\ cr = 0
    /\ ca = 0
    /\ cpc = "idle"

GuiIdle ==
    /\ app = "all"
    /\ export_imgs = FALSE
    /\ gen_btn = "normal"
    /\ gen_zb_btn = "none"
    /\ workers = {}
    /\ after_q = <<>>
    /\ clicks = 0
    /\ progress = 0
    /\ status = "ready"

-----------------------------------------------------------------------------
(* Bounds *)

MaxRuns == 3
MaxRows == 3
MaxSlides == 3
MaxRecords == 19

-----------------------------------------------------------------------------
(* Python str primitives on sequences of characters *)

\* s[k : k+len(p)] == p   (k is 1-based)
MatchesAt(s, p, k) ==
    /\ k >= 1
    /\ k + Len(p) - 1 <= Len(s)
    /\ \A n \in 1..Len(p) : s[k + n - 1] = p[n]

\* p in s
Contains(s, p) == \E k \in 1..(Len(s) - Len(p) + 1) : MatchesAt(s, p, k)

\* s.replace(old, new) for a non-empty old: every non-overlapping occurrence,
\* found left to right
RECURSIVE StrReplace(_, _, _)
StrReplace(s, old, new) ==
    IF Len(s) < Len(old) THEN s
    ELSE IF MatchesAt(s, old, 1)
         THEN new \o StrReplace(SubSeq(s, Len(old) + 1, Len(s)), old, new)
         ELSE <<Head(s)>> \o StrReplace(Tail(s), old, new)

OPEN == <<"{", "{">>
CLOSE == <<"}", "}">>

\* "{{" + key + "}}"
Placeholder(key) == OPEN \o key \o CLOSE

-----------------------------------------------------------------------------
(* Python dict, kept as the sequence of its items in insertion order *)

DictKeys(km) == {km[n].key : n \in 1..Len(km)}

\* key in key_map
DictHas(km, k) == k \in DictKeys(km)

\* key_map[key]; every use is guarded by `key in key_map`, the KeyError
\* branch is modelled by the empty text
DictGet(km, k) ==
    IF DictHas(km, k)
    THEN km[CHOOSE n \in 1..Len(km) : km[n].key = k].value
    ELSE <<>>

-----------------------------------------------------------------------------
(* replace_placeholders_in_paragraph *)

\* a scan that resumes after the third run
AfterTripleSkip(idx) == idx + 3

\* i += 2: the scan resumes at the third run of the triple
AfterTriple(idx) == idx + 2

\* the guard of pattern 1 that also takes the closing braces one run further
IsTripleGap(rs, idx, km) ==
    /\ Contains(rs[idx + 1].text, OPEN)
    /\ idx + 2 < Len(rs)
    /\ DictHas(km, rs[idx + 2].text)
    /\ \/ Contains(rs[idx + 3].text, CLOSE)
       \/ idx + 3 < Len(rs) /\ Contains(rs[idx + 4].text, CLOSE)

\* the guard of pattern 1 without the membership test
IsTripleNoKeyCheck(rs, idx, km) ==
    /\ Contains(rs[idx + 1].text, OPEN)
    /\ idx + 2 < Len(rs)
    /\ Contains(rs[idx + 3].text, CLOSE)

\* pattern 1: run[i] holds "{{", run[i+1] is a key, run[i+2] holds "}}"
IsTriple(rs, idx, km) ==
    /\ Contains(rs[idx + 1].text, OPEN)
    /\ idx + 2 < Len(rs)
    /\ DictHas(km, rs[idx + 2].text)
    /\ Contains(rs[idx + 3].text, CLOSE)

\* pattern 1 that drops the closing run instead of rewriting its text
TripleSubstDropRun(rs, idx, km) ==
    LET new == [rs EXCEPT
                  ![idx + 1].text = StrReplace(@, OPEN, <<>>),
                  ![idx + 2].text = DictGet(km, rs[idx + 2].text)]
    IN SubSeq(new, 1, idx + 2) \o SubSeq(new, idx + 4, Len(new))

\* the three assignments of pattern 1
TripleSubst(rs, idx, km) ==
    [rs EXCEPT
       ![idx + 1].text = StrReplace(@, OPEN, <<>>),
       ![idx + 2].text = DictGet(km, rs[idx + 2].text),
       ![idx + 3].text = StrReplace(@, CLOSE, <<>>)]

\* pattern 2: for key, value in key_map.items(): text = text.replace(...)
RECURSIVE SingleRunReplace(_, _, _)
SingleRunReplace(text, km, n) ==
    IF n > Len(km) THEN text
    ELSE SingleRunReplace(
             IF Contains(text, Placeholder(km[n].key))
             THEN StrReplace(text, Placeholder(km[n].key), km[n].value)
             ELSE text,
             km, n + 1)

-----------------------------------------------------------------------------
(* Inputs of the paragraph specification *)

KeyA == <<"a">>
KeyB == <<"b">>
KeyC == <<"c">>

RunTexts ==
    { <<>>, OPEN, CLOSE, KeyA, KeyB, KeyC,
      Placeholder(KeyA),
      Placeholder(KeyA) \o OPEN,
      CLOSE \o <<"-">> \o OPEN,
      Placeholder(KeyC),
      <<"x">> \o OPEN }

Item(k, v) == [key |-> k, value |-> v]

KeyMaps ==
    { <<>>,
      <<Item(KeyA, <<"V">>)>>,
      <<Item(KeyA, <<"V">>), Item(KeyB, <<"W">>)>>,
      <<Item(KeyB, <<"W">>), Item(KeyA, <<"V">>)>>,
      \* a value that reads as the token of the other key, in both orders
      <<Item(KeyA, Placeholder(KeyB)), Item(KeyB, <<"W">>)>>,
      <<Item(KeyB, <<"W">>), Item(KeyA, Placeholder(KeyB))>> }

\* longer paragraphs: two three-run tokens sharing the run "}}-{{", and a
\* token whose braces are spread over four runs
ExtraParagraphs ==
    { <<OPEN, KeyA, CLOSE \o <<"-">> \o OPEN, KeyB, CLOSE>>,
      <<OPEN, KeyA, <<>>, CLOSE>>,
      <<Placeholder(KeyA) \o OPEN, KeyB, CLOSE, Placeholder(KeyC)>> }

\* two or three three-run tokens in a row, each sharing a run with the next
AdjacentParagraphs ==
    { <<first, k1, CLOSE \o mid \o OPEN, k2, CLOSE \o last>> :
          first \in {OPEN, <<"x">> \o OPEN}, k1 \in {KeyA, KeyB, KeyC},
          mid \in {<<>>, <<"-">>}, k2 \in {KeyA, KeyB}, last \in {<<>>, <<"y">>} }
    \cup { <<OPEN, KeyA, CLOSE \o OPEN, KeyB, CLOSE \o <<"-">> \o OPEN, KeyA, CLOSE>> }

\* one token cut over two runs, over four runs, or over three runs with the
\* key not alone in the middle run; alone or next to another token
SplitParagraphs ==
    { <<OPEN \o KeyA, CLOSE>>,
      <<OPEN, KeyA \o CLOSE>>,
      <<OPEN, <<>>, KeyA, CLOSE>>,
      <<OPEN, KeyA, <<"}">>, <<"}">> >>,
      <<(<<"{">>), <<"{">>, KeyA, CLOSE>>,
      <<OPEN, KeyA \o <<"}">>, <<"}">> >>,
      <<(<<"{">>), <<"{">> \o KeyA \o <<"}">>, <<"}">> >>,
      <<OPEN \o KeyA, CLOSE, Placeholder(KeyB)>>,
      <<Placeholder(KeyB), OPEN, KeyA \o CLOSE>>,
      <<OPEN, KeyB, CLOSE, OPEN \o KeyA, CLOSE>>,
      <<OPEN \o KeyA, CLOSE, OPEN, KeyB, CLOSE>> }

Paragraphs ==
    UNION { [1..n -> RunTexts] : n \in 0..MaxRuns }
    \cup ExtraParagraphs \cup AdjacentParagraphs \cup SplitParagraphs

MakeRuns(texts) == [j \in 1..Len(texts) |-> [rPr |-> j, text |-> texts[j]]]

ParaInit ==
    /\ \E texts \in Paragraphs :
         /\ runs0 = MakeRuns(texts)
         /\ runs = MakeRuns(texts)
    /\ key_map \in KeyMaps
    /\ i = 0
    /\ ppc = "loop"
    /\ rows = <<>>
    /\ AggIdle
    /\ RepIdle
    /\ FillIdle
    /\ DateIdle
    /\ DetIdle
    /\ CopyIdle
    /\ GuiIdle

\* one iteration of the while loop through pattern 1
ThreeRun ==
    /\ ppc = "loop"
    /\ i < Len(runs)
    /\ IsTriple(runs, i, key_map)
    /\ runs' = TripleSubst(runs, i, key_map)
    /\ i' = AfterTriple(i)
    /\ UNCHANGED <<runs0, key_map, ppc, xPara>>

\* one iteration of the while loop through pattern 2
OneRun ==
    /\ ppc = "loop"
    /\ i < Len(runs)
    /\ ~IsTriple(runs, i, key_map)
    /\ runs' = [runs EXCEPT ![i + 1].text = SingleRunReplace(@, key_map, 1)]
    /\ i' = i + 1
    /\ UNCHANGED <<runs0, key_map, ppc, xPara>>

\* the loop condition fails: the call returns
ParaReturn ==
    /\ ppc = "loop"
    /\ i >= Len(runs)
    /\ ppc' = "done"
    /\ UNCHANGED <<runs, runs0, key_map, i, xPara>>

ParaNext == ThreeRun \/ OneRun \/ ParaReturn

SpecParagraph == ParaInit /\ [][ParaNext]_vars

-----------------------------------------------------------------------------
(* Reference reading of a paragraph: the tokens it holds before the call *)

StartsWith(s, p) == MatchesAt(s, p, 1)
EndsWith(s, p) == MatchesAt(s, p, Len(s) - Len(p) + 1)

\* a token laid out over the runs j, j+1, j+2: the opening braces end run j,
\* the key is the whole of run j+1, the closing braces start run j+2
TokenAt(rs, km, j) ==
    /\ j >= 1
    /\ j + 2 <= Len(rs)
    /\ EndsWith(rs[j].text, OPEN)
    /\ DictHas(km, rs[j + 1].text)
    /\ StartsWith(rs[j + 2].text, CLOSE)

\* every {{key}} of the text replaced by the key's value, the values
\* themselves not read again
RECURSIVE RefReplace(_, _)
RefReplace(text, km) ==
    IF text = <<>> THEN <<>>
    ELSE LET hits == {n \in 1..Len(km) : MatchesAt(text, Placeholder(km[n].key), 1)}
         IN IF hits # {}
            THEN LET n == CHOOSE m \in hits : TRUE
                 IN km[n].value \o
                    RefReplace(SubSeq(text, Len(Placeholder(km[n].key)) + 1, Len(text)), km)
            ELSE <<Head(text)>> \o RefReplace(Tail(text), km)

ExpectedText(rs, km, j) ==
    IF TokenAt(rs, km, j - 1) THEN DictGet(km, rs[j].text)
    ELSE LET t0 == rs[j].text
             t1 == IF TokenAt(rs, km, j - 2) THEN SubSeq(t0, 3, Len(t0)) ELSE t0
             t2 == IF TokenAt(rs, km, j) THEN SubSeq(t1, 1, Len(t1) - 2) ELSE t1
         IN RefReplace(t2, km)

\* index of the last / first occurrence of p in s (0 when there is none)
LastIndexOf(s, p) ==
    LET ks == {k \in 1..Len(s) : MatchesAt(s, p, k)}
    IN IF ks = {} THEN 0 ELSE CHOOSE k \in ks : \A k2 \in ks : k2 <= k

FirstIndexOf(s, p) ==
    LET ks == {k \in 1..Len(s) : MatchesAt(s, p, k)}
    IN IF ks = {} THEN 0 ELSE CHOOSE k \in ks : \A k2 \in ks : k2 >= k

RemoveAt(s, k, n) == SubSeq(s, 1, k - 1) \o SubSeq(s, k + n, Len(s))

\* no key of the map is the full text of a run or sits in a {{key}} of a run
NoKeyOccurs(rs, km) ==
    \A k \in DictKeys(km) : \A j \in 1..Len(rs) :
        /\ rs[j].text # k
        /\ ~Contains(rs[j].text, Placeholder(k))

-----------------------------------------------------------------------------
(* Claims about replace_placeholders_in_paragraph *)

\* C2: when the call has returned, every token of the paragraph, inside one
\* run or laid out over three runs, is replaced by its value and all other
\* text is as before.
C2_EveryTokenReplaced ==
    ppc = "done" =>
        \A j \in 1..Len(runs0) :
            /\ j <= Len(runs)
            /\ runs[j].text = ExpectedText(runs0, key_map, j)

\* C3: a three-run substitution removes from the first run only the opening
\* braces next to the key and from the third run only the closing braces
\* next to the key; all other characters of both runs stay.
C3_OnlyTheTokenMarkersLost ==
    [][ (ppc = "loop" /\ i' = i + 2) =>
          /\ runs'[i + 1].text =
                RemoveAt(runs[i + 1].text, LastIndexOf(runs[i + 1].text, OPEN), 2)
          /\ runs'[i + 3].text =
                RemoveAt(runs[i + 3].text, FirstIndexOf(runs[i + 3].text, CLOSE), 2)
      ]_vars

\* C4: if no key of the map occurs in the paragraph, the text of every run
\* stays what it was, at every point of the call.
C4_UnknownKeysNoOp ==
    NoKeyOccurs(runs0, key_map) =>
        /\ Len(runs) = Len(runs0)
        /\ \A j \in 1..Len(runs0) : runs[j].text = runs0[j].text

\* the call returned on a paragraph holding {{c}} literally and the braces
\* "{{" , "c", "}}" over three runs, with a map that knows other keys
C4_Witness ==
    /\ ppc = "done"
    /\ Len(key_map) = 2
    /\ NoKeyOccurs(runs0, key_map)
    /\ Len(runs0) = 3
    /\ runs0[1].text = OPEN
    /\ runs0[2].text = KeyC
    /\ runs0[3].text = CLOSE

\* C5: the call never adds, removes or reorders runs.
C5_RunsKept ==
    /\ Len(runs) = Len(runs0)
    /\ \A j \in 1..Len(runs0) : runs[j].rPr = runs0[j].rPr

\* the call returned after a three-run substitution and a single-run one
C5_Witness ==
    /\ ppc = "done"
    /\ Len(runs0) = 5
    /\ runs0[3].text = CLOSE \o <<"-">> \o OPEN
    /\ runs[1].text = <<>>
    /\ runs[2].text = <<"V">>
    /\ runs[3].text = <<"-">>
    /\ runs[4].text = <<"W">>

\* the text holds "}}" and, after it, "{{"
SharedBoundary(text) ==
    \E p \in 1..Len(text) : \E q \in 1..Len(text) :
        p + 2 <= q /\ MatchesAt(text, CLOSE, p) /\ MatchesAt(text, OPEN, q)

\* runs j .. j+4 hold two three-run tokens that share the run j+2
AdjacentAt(rs, km, j) ==
    /\ j + 4 <= Len(rs)
    /\ Contains(rs[j].text, OPEN)
    /\ DictHas(km, rs[j + 1].text)
    /\ SharedBoundary(rs[j + 2].text)
    /\ DictHas(km, rs[j + 3].text)
    /\ Contains(rs[j + 4].text, CLOSE)

\* C22: when two three-run tokens share their boundary run, the one pass
\* of the call substitutes both keys.
C22_AdjacentTokensBothReplaced ==
    ppc = "done" =>
        \A j \in 1..Len(runs0) :
            AdjacentAt(runs0, key_map, j) =>
                /\ runs[j + 1].text = DictGet(key_map, runs0[j + 1].text)
                /\ runs[j + 3].text = DictGet(key_map, runs0[j + 3].text)

\* "x{{", a, "}}{{", b, "}}y" gives "x", V, "", W, "y"
C22_Witness ==
    /\ ppc = "done"
    /\ Len(runs0) = 5
    /\ AdjacentAt(runs0, key_map, 1)
    /\ runs0[3].text = CLOSE \o OPEN
    /\ [j \in 1..5 |-> runs[j].text] = << <<"x">>, <<"V">>, <<>>, <<"W">>, <<"y">> >>

\* the texts of the runs a .. b put together
RECURSIVE Concat(_, _, _)
Concat(rs, a, b) == IF a > b THEN <<>> ELSE rs[a].text \o Concat(rs, a + 1, b)

\* the runs a .. b, more than one, hold between them one {{key}} and nothing
\* else, and are not the three-run layout "{{", key, "}}"
SplitTokenAt(rs, km, a, b) ==
    /\ a < b
    /\ rs[a].text # <<>>
    /\ rs[b].text # <<>>
    /\ \E k \in DictKeys(km) : Concat(rs, a, b) = Placeholder(k)
    /\ ~(b = a + 2 /\ rs[a].text = OPEN /\ DictHas(km, rs[a + 1].text)
                   /\ rs[b].text = CLOSE)

\* C23: the runs of a token cut over several runs otherwise than "{{", key,
\* "}}" keep their text, at every point of the call.
C23_OtherSplitsLiteral ==
    \A a \in 1..Len(runs0) : \A b \in 1..Len(runs0) :
        SplitTokenAt(runs0, key_map, a, b) =>
            \A j \in a..b : runs[j].text = runs0[j].text

\* "{{a", "}}", "{{b}}": the third run is replaced, the first two are kept
C23_Witness ==
    /\ ppc = "done"
    /\ Len(runs0) = 3
    /\ SplitTokenAt(runs0, key_map, 1, 2)
    /\ runs0[3].text = Placeholder(KeyB)
    /\ runs[3].text = <<"W">>
    /\ runs[1].text = OPEN \o KeyA
    /\ runs[2].text = CLOSE

\* run j is the first or the third run of a possible three-run substitution
InTriple(rs, km, j) ==
    \/ j + 2 <= Len(rs) /\ DictHas(km, rs[j + 1].text)
    \/ j >= 3 /\ DictHas(km, rs[j - 1].text)

\* C30: what the call puts in place of a token is the value of its key,
\* still there when the call returns: for a run that is one {{key}}, and for
\* the key run of a three-run token.
C30_ValueVerbatim ==
    ppc = "done" =>
        \A j \in 1..Len(runs0) :
            /\ (\E k \in DictKeys(key_map) : runs0[j].text = Placeholder(k))
                /\ ~InTriple(runs0, key_map, j)
                => runs[j].text =
                       DictGet(key_map, SubSeq(runs0[j].text, 3, Len(runs0[j].text) - 2))
            /\ TokenAt(runs0, key_map, j) =>
                   runs[j + 1].text = DictGet(key_map, runs0[j + 1].text)

-----------------------------------------------------------------------------
(* Numbers: float(text) and format(total, "g") on the texts that occur.     *)
(* Every amount of the model is an integer below 2^31, which a Python float *)
(* holds exactly, so float arithmetic is integer arithmetic here.           *)

Digits == <<"0", "1", "2", "3", "4", "5", "6", "7", "8", "9">>
DigitSet == {Digits[n] : n \in 1..10}
DigitVal(c) == (CHOOSE n \in 1..10 : Digits[n] = c) - 1

IsDigits(s) == Len(s) >= 1 /\ \A n \in 1..Len(s) : s[n] \in DigitSet

RECURSIVE DigitsValue(_)
DigitsValue(s) ==
    IF s = <<>> THEN 0
    ELSE DigitsValue(SubSeq(s, 1, Len(s) - 1)) * 10 + DigitVal(s[Len(s)])

RECURSIVE ToDigits(_)
ToDigits(n) ==
    IF n < 10 THEN <<Digits[n + 1]>>
    ELSE ToDigits(n \div 10) \o <<Digits[(n % 10) + 1]>>

RECURSIVE Pow10(_)
Pow10(n) == IF n <= 0 THEN 1 ELSE 10 * Pow10(n - 1)

RECURSIVE StripTrailingZeros(_)
StripTrailingZeros(s) ==
    IF s # <<>> /\ s[Len(s)] = "0"
    THEN StripTrailingZeros(SubSeq(s, 1, Len(s) - 1))
    ELSE s

\* float(text): [ok, v]; ok = FALSE is ValueError.  Accepted here: an optional
\* "-", then either digits, or d[.ddddd]e+XX as format(.., "g") writes it.
ParseFloat(text) ==
    LET neg == Len(text) >= 1 /\ text[1] = "-"
        body == IF neg THEN Tail(text) ELSE text
        sign == IF neg THEN -1 ELSE 1
        epos == FirstIndexOf(body, <<"e">>)
        mant == SubSeq(body, 1, epos - 1)
        expo == SubSeq(body, epos + 1, Len(body))
        dot == FirstIndexOf(mant, <<".">>)
        whole == IF dot = 0 THEN mant ELSE SubSeq(mant, 1, dot - 1)
        frac == IF dot = 0 THEN <<>> ELSE SubSeq(mant, dot + 1, Len(mant))
        expDigits == Tail(expo)
    IN IF epos = 0
       THEN IF IsDigits(body)
            THEN [ok |-> TRUE, v |-> sign * DigitsValue(body)]
            ELSE [ok |-> FALSE, v |-> 0]
       ELSE IF /\ IsDigits(whole)
               /\ (dot = 0 \/ IsDigits(frac))
               /\ Len(expo) >= 2
               /\ expo[1] = "+"
               /\ IsDigits(expDigits)
               /\ DigitsValue(expDigits) >= Len(frac)
            THEN [ok |-> TRUE,
                  v |-> sign * DigitsValue(whole \o frac)
                             * Pow10(DigitsValue(expDigits) - Len(frac))]
            ELSE [ok |-> FALSE, v |-> 0]

\* format(total, "g") of an integer-valued float: six significant digits,
\* the rest rounded half to even; fixed notation below 10^6, else d.ddddde+XX
\* with the trailing zeros of the mantissa removed
FormatG(v) ==
    LET a == IF v < 0 THEN -v ELSE v
        sign == IF v < 0 THEN <<"-">> ELSE <<>>
        n == Len(ToDigits(a))
        unit == Pow10(n - 6)
        q == a \div unit
        r == a % unit
        up == (2 * r > unit) \/ (2 * r = unit /\ q % 2 = 1)
        q1 == IF up THEN q + 1 ELSE q
        carry == q1 = 1000000
        q2 == IF carry THEN 100000 ELSE q1
        x == IF carry THEN n ELSE n - 1
        ds == ToDigits(q2)
        fr == StripTrailingZeros(Tail(ds))
        ex == IF x < 10 THEN <<"0">> \o ToDigits(x) ELSE ToDigits(x)
    IN IF a < 1000000
       THEN sign \o ToDigits(a)
       ELSE sign \o <<Head(ds)>> \o (IF fr = <<>> THEN <<>> ELSE <<".">> \o fr)
                 \o <<"e", "+">> \o ex

-----------------------------------------------------------------------------
(* Records.  A field of a record is [k, s]: k = "str" with the text s,      *)
(* k = "none" for the None that csv.DictReader stores for a field missing   *)
(* at the end of a short line, k = "missing" when the record has no such    *)
(* column.                                                                   *)

Str(s) == [k |-> "str", s |-> s]
NoneValue == [k |-> "none", s |-> <<>>]
Missing == [k |-> "missing", s |-> <<>>]

\* row.get(column, default)
RowGet(field, default) == IF field.k = "missing" THEN Str(default) ELSE field

\* the unit written after every total
SUFFIX == <<"W">>
COMMA == <<",">>

\* key = (row.get(branch, ""), row.get(product, "")) with the product left out
GroupKeyBranchOnly(row) == <<RowGet(row.branch, <<>>), Str(<<>>)>>

\* key = (row.get(branch, ""), row.get(product, ""))
GroupKey(row) == <<RowGet(row.branch, <<>>), RowGet(row.fund, <<>>)>>

\* the amount of a record: [raised, v].  None has no .replace: AttributeError,
\* which `except ValueError` does not catch; a text float() rejects counts 0.
RowAmount(row) ==
    LET f == RowGet(row.amount, <<"0">>)
    IN IF f.k = "none" THEN [raised |-> TRUE, v |-> 0]
       ELSE LET p == ParseFloat(StrReplace(f.s, COMMA, <<>>))
            IN [raised |-> FALSE, v |-> IF p.ok THEN p.v ELSE 0]

GroupIndex(gs, key) ==
    LET ns == {n \in 1..Len(gs) : gs[n].key = key}
    IN IF ns = {} THEN 0 ELSE CHOOSE n \in ns : TRUE

\* a fold that takes the amount off the total
GroupsSubtract(gs, key, amount) ==
    LET n == GroupIndex(gs, key)
    IN IF n = 0
       THEN Append(gs, [key |-> key, total |-> 0 - amount])
       ELSE [gs EXCEPT ![n].total = @ - amount]

\* groups[key] += amount on a defaultdict(float)
GroupsAdd(gs, key, amount) ==
    LET n == GroupIndex(gs, key)
    IN IF n = 0
       THEN Append(gs, [key |-> key, total |-> amount])
       ELSE [gs EXCEPT ![n].total = @ + amount]

\* one row of the result
ResultRow(g) ==
    [branch |-> g.key[1], fund |-> g.key[2], total_str |-> FormatG(g.total) \o SUFFIX]

\* the sort key: float(total_str.replace(suffix, "").replace(",", ""))
SortKey(row) ==
    ParseFloat(StrReplace(StrReplace(row.total_str, SUFFIX, <<>>), COMMA, <<>>)).v

\* list.sort(key, reverse=True): descending by key, rows of equal key in
\* the order they had (the sort is stable)
RECURSIVE SortDescending(_)
SortDescending(rs) ==
    IF rs = <<>> THEN <<>>
    ELSE LET done == SortDescending(SubSeq(rs, 1, Len(rs) - 1))
             x == rs[Len(rs)]
             before == {n \in 1..Len(done) : SortKey(done[n]) >= SortKey(x)}
             at == Cardinality(before)
         IN SubSeq(done, 1, at) \o <<x>> \o SubSeq(done, at + 1, Len(done))

\* the second half of group_data_for_zhanbao: format every group, sort
FormatAndSort(gs) == SortDescending([n \in 1..Len(gs) |-> ResultRow(gs[n])])

-----------------------------------------------------------------------------
(* Inputs of the aggregation specification *)

AmountValues ==
    { Str(<<"5">>), Str(<<"1", ",", "0", "0", "0">>),
      Str(<<"1", "2", "3", "4", "5", "6", "7">>),
      Str(<<"1", "2", "3", "4", "5", "6", "8">>),
      Str(<<"-", "5">>),
      Str(<<"x">>), Str(<<>>), NoneValue, Missing }

GroupNames ==
    { <<Str(<<"A">>), Str(<<"F">>)>>,
      <<Str(<<"a">>), Str(<<"F">>)>>,
      <<Str(<<"A">>), Str(<<"F", " ">>)>> }

Records ==
    { [branch |-> g[1], fund |-> g[2], amount |-> a] :
          g \in GroupNames, a \in AmountValues }

RecordLists == UNION { [1..n -> Records] : n \in 0..MaxRows }

AggInit ==
    /\ rows \in RecordLists
    /\ ri = 0
    /\ groups = <<>>
    /\ result = <<>>
    /\ apc = "fold"
    /\ ParaIdle
    /\ RepIdle
    /\ FillIdle
    /\ DateIdle
    /\ DetIdle
    /\ CopyIdle
    /\ GuiIdle

\* one iteration of `for row in rows`
FoldRow ==
    /\ apc = "fold"
    /\ ri < Len(rows)
    /\ ~RowAmount(rows[ri + 1]).raised
    /\ groups' = GroupsAdd(groups, GroupKey(rows[ri + 1]), RowAmount(rows[ri + 1]).v)
    /\ ri' = ri + 1
    /\ UNCHANGED <<rows, result, apc, xAgg>>

\* the iteration raises AttributeError: the call ends without a result
FoldRaise ==
    /\ apc = "fold"
    /\ ri < Len(rows)
    /\ RowAmount(rows[ri + 1]).raised
    /\ apc' = "raised"
    /\ UNCHANGED <<rows, ri, groups, result, xAgg>>

\* after the loop: format, sort, return
FoldReturn ==
    /\ apc = "fold"
    /\ ri = Len(rows)
    /\ result' = FormatAndSort(groups)
    /\ apc' = "done"
    /\ UNCHANGED <<rows, ri, groups, xAgg>>

AggNext == FoldRow \/ FoldRaise \/ FoldReturn

SpecAggregate == AggInit /\ [][AggNext]_vars

-----------------------------------------------------------------------------
(* Reference reading of a record list, independent of the fold *)

PairOf(row) == <<RowGet(row.branch, <<>>), RowGet(row.fund, <<>>)>>

\* the amount text parses as a number once the commas are removed
ParsesAsNumber(field) ==
    field.k = "str" /\ ParseFloat(StrReplace(field.s, COMMA, <<>>)).ok

ParsedAmount(row) ==
    IF ParsesAsNumber(row.amount)
    THEN ParseFloat(StrReplace(row.amount.s, COMMA, <<>>)).v
    ELSE 0

WellFormed(rs) == \A n \in 1..Len(rs) : ParsesAsNumber(rs[n].amount)

RECURSIVE ExactSum(_, _)
ExactSum(rs, pair) ==
    IF rs = <<>> THEN 0
    ELSE ExactSum(Tail(rs), pair)
         + (IF PairOf(Head(rs)) = pair THEN ParsedAmount(Head(rs)) ELSE 0)

FirstSeen(rs, pair) ==
    LET ns == {n \in 1..Len(rs) : PairOf(rs[n]) = pair}
    IN IF ns = {} THEN 0 ELSE CHOOSE n \in ns : \A m \in ns : n <= m

TotalOf(gs, pair) ==
    IF GroupIndex(gs, pair) = 0 THEN 0 ELSE gs[GroupIndex(gs, pair)].total

\* the number a result row shows before the unit suffix
Shown(row) == ParseFloat(StrReplace(row.total_str, SUFFIX, <<>>))

RowPair(row) == <<row.branch, row.fund>>

-----------------------------------------------------------------------------
(* Claims about group_data_for_zhanbao *)

\* C6: with well-formed amounts, the number shown for every group is the
\* exact sum of the parsed amounts of the group's records.
C6_TotalsAreExactSums ==
    (apc = "done" /\ WellFormed(rows)) =>
        \A n \in 1..Len(result) :
            /\ Shown(result[n]).ok
            /\ Shown(result[n]).v = ExactSum(rows, RowPair(result[n]))

\* C7: folding in a record whose amount is malformed (absent, empty or not a
\* number) raises nothing, leaves its group's total as it was and makes the
\* group appear.
C7_MalformedCountsZero ==
    [][ (apc = "fold" /\ ri < Len(rows) /\ ~ParsesAsNumber(rows[ri + 1].amount)) =>
          /\ apc' = "fold"
          /\ ri' = ri + 1
          /\ GroupIndex(groups', PairOf(rows[ri + 1])) # 0
          /\ TotalOf(groups', PairOf(rows[ri + 1])) = TotalOf(groups, PairOf(rows[ri + 1]))
      ]_vars

\* C8: the result holds exactly one row per distinct (branch, product) pair
\* of the records, the pairs compared as raw texts.
C8_OneRowPerPair ==
    apc = "done" =>
        /\ Len(result) = Cardinality({PairOf(rows[n]) : n \in 1..Len(rows)})
        /\ \A n \in 1..Len(rows) : \E m \in 1..Len(result) : RowPair(result[m]) = PairOf(rows[n])
        /\ \A m1, m2 \in 1..Len(result) :
               RowPair(result[m1]) = RowPair(result[m2]) => m1 = m2

\* three records, two of one pair, the third differing from it only by the
\* case of the branch name: two rows
C8_Witness ==
    /\ apc = "done"
    /\ Len(rows) = 3
    /\ PairOf(rows[1]) = <<Str(<<"A">>), Str(<<"F">>)>>
    /\ PairOf(rows[2]) = <<Str(<<"a">>), Str(<<"F">>)>>
    /\ PairOf(rows[3]) = <<Str(<<"A">>), Str(<<"F">>)>>
    /\ Len(result) = 2

\* C9: the rows are in descending order of group sum, rows of equal sum in
\* the order in which their groups were first met.
C9_SortedBySum ==
    apc = "done" =>
        \A m1, m2 \in 1..Len(result) :
            m1 < m2 =>
                LET s1 == ExactSum(rows, RowPair(result[m1]))
                    s2 == ExactSum(rows, RowPair(result[m2]))
                IN \/ s1 > s2
                   \/ /\ s1 = s2
                      /\ FirstSeen(rows, RowPair(result[m1])) < FirstSeen(rows, RowPair(result[m2]))

\* the (branch, product) pairs of the records
PairsOf(rs) == {PairOf(rs[n]) : n \in 1..Len(rs)}

\* C24: while the records are folded in, the running sum of no group
\* decreases, for records whose amounts all parse as numbers.
C24_RunningSumMonotone ==
    [][ (apc = "fold" /\ WellFormed(rows)) =>
          \A pair \in PairsOf(rows) : TotalOf(groups', pair) >= TotalOf(groups, pair)
      ]_vars

NonNegative(rs) == WellFormed(rs) /\ \A n \in 1..Len(rs) : ParsedAmount(rs[n]) >= 0

\* C24, amended: while the records are folded in, the running sum of no
\* group decreases, for records whose amounts all parse as numbers that are
\* not negative.
C24_RunningSumMonotoneNonNegative ==
    [][ (apc = "fold" /\ NonNegative(rows)) =>
          \A pair \in PairsOf(rows) : TotalOf(groups', pair) >= TotalOf(groups, pair)
      ]_vars

\* three records of one group folded in: 5, then 1,000, then 5
C24_Witness ==
    /\ apc = "fold"
    /\ ri = 3
    /\ NonNegative(rows)
    /\ Cardinality(PairsOf(rows)) = 1
    /\ ParsedAmount(rows[1]) = 5
    /\ ParsedAmount(rows[2]) = 1000
    /\ Len(groups) = 1
    /\ groups[1].total = 1010

-----------------------------------------------------------------------------
(* Documents, slides and files.                                             *)
(* A slide is [src, tokens, kind, n]: the template slide it comes from, the *)
(* placeholder tokens the text and tables of that template slide hold, and  *)
(* what it was filled with ("template": nothing yet, "row" n, "page" n).    *)
(* A document is the sequence of its slides.  Tokens are named in ASCII:    *)
(* branch_name, manager_name, sale_amount, fund_name are the keys of        *)
(* FIELD_MAP, start_date, end_date, total_sales the tokens of the summary.  *)

ROWS_PER_PAGE_ZHANBAO == 9

TemplateName == <<"template", 0, 0>>
SplitName(n) == <<"_split_template", n, 0>>
RowName(n, k) == <<"_part_row", n, k>>
PageName(n, k) == <<"_part_page", n, k>>
PartName(n) == <<"part", n, 0>>

Exists(files, name) == name \in DOMAIN files

\* prs.save(path)
Save(files, name, doc) ==
    [x \in (DOMAIN files) \cup {name} |-> IF x = name THEN doc ELSE files[x]]

\* try: os.remove(path) / except: pass
Remove(files, name) == [x \in (DOMAIN files) \ {name} |-> files[x]]

\* a cleanup that deletes nothing
RemoveNone(files, names) == files

\* for p in names: try: os.remove(p) / except: pass
RemoveAll(files, names) == [x \in (DOMAIN files) \ names |-> files[x]]

\* copy_slide_from_pptx of generate_xibao.py: the first slide only
CopyFirstSlide(target_prs, source) == target_prs \o SubSeq(source, 1, 1)

\* a copy that puts the slides of the source in front
CopySlidesInFront(target_prs, source) == source \o target_prs

\* copy_slides_from_pptx: every slide of the source appended, in order
CopySlides(target_prs, source) == target_prs \o source

\* merged = Presentation(docs[0]); for d in docs[1:]: copy_slides_from_pptx
RECURSIVE MergeDocs(_)
MergeDocs(docs) ==
    IF Len(docs) = 1 THEN docs[1]
    ELSE CopySlides(MergeDocs(SubSeq(docs, 1, Len(docs) - 1)), docs[Len(docs)])

\* a split that keeps the first slide whatever the index
SingleSlideFirst(doc, n) == <<doc[1]>>

\* split_template_by_slides, document n: every slide but the n-th removed
SingleSlide(doc, n) == <<doc[n + 1]>>

DocTokens(doc) == UNION {doc[n].tokens : n \in 1..Len(doc)}

\* detect_template_type
detect_template_type(prs) ==
    LET text_content == DocTokens(prs)
    IN IF \/ "branch_name" \in text_content
          \/ "manager_name" \in text_content
          \/ "fund_name" \in text_content
       THEN IF "start_date" \in text_content THEN "SUMMARY" ELSE "INDIVIDUAL"
       ELSE IF "start_date" \in text_content \/ "total_sales" \in text_content
            THEN "SUMMARY"
            ELSE "STATIC"

\* the columns FIELD_MAP reads with row[col]
FieldColumns(row) == {row.branch, row.manager, row.amount, row.fund}

\* replacements = {ph: row[col] ...} raises KeyError
RowLacksColumn(row) == \E f \in FieldColumns(row) : f.k = "missing"

FillRow(slide, k) == [slide EXCEPT !.kind = "row", !.n = k]
FillPage(slide, k) == [slide EXCEPT !.kind = "page", !.n = k]

\* the fold of group_data_for_zhanbao over the first n records
RECURSIVE GroupFold(_, _)
GroupFold(rs, n) ==
    IF n = 0 THEN <<>>
    ELSE GroupsAdd(GroupFold(rs, n - 1), GroupKey(rs[n]), RowAmount(rs[n]).v)

FoldRaises(rs) == \E n \in 1..Len(rs) : RowAmount(rs[n]).raised

\* group_data_for_zhanbao(rows), when it returns
group_data_for_zhanbao(rs) == FormatAndSort(GroupFold(rs, Len(rs)))

\* pages that step by the page size but hold one row less
RECURSIVE PaginateShort(_)
PaginateShort(gs) ==
    IF gs = <<>> THEN <<>>
    ELSE <<SubSeq(gs, 1, IF Len(gs) < ROWS_PER_PAGE_ZHANBAO - 1
                         THEN Len(gs) ELSE ROWS_PER_PAGE_ZHANBAO - 1)>>
         \o PaginateShort(SubSeq(gs, ROWS_PER_PAGE_ZHANBAO + 1, Len(gs)))

\* for i in range(0, len(grouped), 9): pages.append(grouped[i:i + 9])
RECURSIVE Paginate(_)
Paginate(gs) ==
    IF gs = <<>> THEN <<>>
    ELSE <<SubSeq(gs, 1, IF Len(gs) < ROWS_PER_PAGE_ZHANBAO
                         THEN Len(gs) ELSE ROWS_PER_PAGE_ZHANBAO)>>
         \o Paginate(SubSeq(gs, ROWS_PER_PAGE_ZHANBAO + 1, Len(gs)))

-----------------------------------------------------------------------------
(* Inputs of generate_full_report *)

IndividualTokens == {"branch_name", "manager_name", "sale_amount", "fund_name"}
SummaryTokens == {"start_date", "end_date", "branch_name", "fund_name", "total_sales"}

TokenSets == {IndividualTokens, SummaryTokens, {}}

Templates ==
    UNION { [1..n -> TokenSets] : n \in 0..MaxSlides }

MakeTemplate(t) ==
    [j \in 1..Len(t) |-> [src |-> j - 1, tokens |-> t[j], kind |-> "template", n |-> 0]]

\* r records in g groups, the k-th of group (k-1) mod g
MakeRecords(r, g, manager) ==
    [k \in 1..r |->
        [branch |-> Str(ToDigits((k - 1) % g)), manager |-> manager,
         fund |-> Str(<<"F">>), amount |-> Str(<<"5">>)]]

\* the numbers of groups tried for r records
GroupCounts(r) == {g \in {1, 2, r - 1, r} : g >= 1 /\ g <= r}

\* the record lists without the manager column and the output paths that
\* name a part file are tried with one or two records
Managers(r) == IF r <= 2 THEN {Str(<<"M">>), Missing} ELSE {Str(<<"M">>)}
OutputPaths(r) == IF r <= 2 THEN {<<"out", 0, 0>>, PartName(0)} ELSE {<<"out", 0, 0>>}

\* a file of a supported format with 1..MaxRecords records, an empty file,
\* and a file of an unsupported format
Init ==
    /\ \E t \in Templates : fs = (TemplateName :> MakeTemplate(t))
    /\ \/ \E r \in 1..MaxRecords : \E g \in GroupCounts(r) :
              /\ \E m \in Managers(r) :
                     data_file = [ext |-> ".csv", records |-> MakeRecords(r, g, m)]
              /\ output_path \in OutputPaths(r)
       \/ /\ data_file = [ext |-> ".xlsx", records |-> <<>>]
          /\ output_path = <<"out", 0, 0>>
       \/ /\ data_file = [ext |-> ".txt", records |-> MakeRecords(1, 1, Str(<<"M">>))]
          /\ output_path = <<"out", 0, 0>>
    /\ rows = <<>>
    /\ pc = "read"
    /\ slide_i = 0
    /\ split_templates = <<>>
    /\ part_files = <<>>
    /\ final_prs = <<>>
    /\ ret = -1
    /\ grouped = <<>>
    /\ pages = <<>>
    /\ ParaIdle
    /\ AggIdle
    /\ FillIdle
    /\ DateIdle
    /\ DetIdle
    /\ CopyIdle
    /\ GuiIdle

\* a reader that takes every extension
read_any_file(file) == [raised |-> FALSE, rows |-> file.records]

\* read_data_file(file_path): [raised, rows]; an extension other than .csv,
\* .xlsx, .xls raises ValueError
read_data_file(file) ==
    IF file.ext \in {".csv", ".xlsx", ".xls"}
    THEN [raised |-> FALSE, rows |-> file.records]
    ELSE [raised |-> TRUE, rows |-> <<>>]

\* rows = read_data_file(data_path); if not rows: raise ValueError
ReadData ==
    /\ pc = "read"
    /\ LET r == read_data_file(data_file)
       IN IF r.raised \/ r.rows = <<>>
          THEN /\ pc' = "error"
               /\ UNCHANGED rows
          ELSE /\ rows' = r.rows
               /\ pc' = "split"
    /\ UNCHANGED <<data_file, output_path, fs, slide_i, split_templates, part_files,
                   final_prs, ret, grouped, pages, xRep>>

\* split_template_by_slides(template_path, output_dir)
SplitTemplate ==
    /\ pc = "split"
    /\ LET prs == fs[TemplateName]
           total_slides == Len(prs)
       IN /\ fs' = [x \in (DOMAIN fs) \cup {SplitName(n) : n \in 0..(total_slides - 1)} |->
                       IF \E n \in 0..(total_slides - 1) : x = SplitName(n)
                       THEN SingleSlide(prs, x[2])
                       ELSE fs[x]]
          /\ split_templates' = [n \in 1..total_slides |-> SplitName(n - 1)]
    /\ slide_i' = 0
    /\ pc' = "process"
    /\ UNCHANGED <<data_file, output_path, rows, part_files, final_prs, ret,
                   grouped, pages, xRep>>

CurrentType == detect_template_type(fs[split_templates[slide_i + 1]])

\* one iteration of the loop, INDIVIDUAL: process_individual_template writes
\* one file per record, merges them into part_i, removes them
ProcessIndividual ==
    /\ pc = "process"
    /\ slide_i < Len(split_templates)
    /\ CurrentType = "INDIVIDUAL"
    /\ ~RowLacksColumn(rows[1])
    /\ LET tmpl_path == split_templates[slide_i + 1]
           slide == fs[tmpl_path][1]
           row_temps == [k \in 1..Len(rows) |-> <<FillRow(slide, k - 1)>>]
           names == {RowName(slide_i, k) : k \in 0..(Len(rows) - 1)}
       IN /\ fs' = Remove(Save(RemoveAll(fs, names), PartName(slide_i),
                               MergeDocs(row_temps)), tmpl_path)
          /\ part_files' = Append(part_files, PartName(slide_i))
    /\ slide_i' = slide_i + 1
    /\ UNCHANGED <<data_file, output_path, rows, pc, split_templates, final_prs,
                   ret, grouped, pages, xRep>>

\* INDIVIDUAL, a column of FIELD_MAP is not in the record: row[col] raises
\* KeyError before anything is written
ProcessIndividualRaise ==
    /\ pc = "process"
    /\ slide_i < Len(split_templates)
    /\ CurrentType = "INDIVIDUAL"
    /\ RowLacksColumn(rows[1])
    /\ pc' = "error"
    /\ UNCHANGED <<data_file, output_path, rows, fs, slide_i, split_templates,
                   part_files, final_prs, ret, grouped, pages, xRep>>

\* one iteration of the loop, SUMMARY: process_summary_template groups the
\* records, cuts the groups into pages, writes one file per page, merges them
\* into part_i, removes them
ProcessSummary ==
    /\ pc = "process"
    /\ slide_i < Len(split_templates)
    /\ CurrentType = "SUMMARY"
    /\ ~FoldRaises(rows)
    /\ LET tmpl_path == split_templates[slide_i + 1]
           slide == fs[tmpl_path][1]
           gs == group_data_for_zhanbao(rows)
           ps == Paginate(gs)
           page_temps == [k \in 1..Len(ps) |-> <<FillPage(slide, k - 1)>>]
           names == {PageName(slide_i, k) : k \in 0..(Len(ps) - 1)}
       IN /\ grouped' = gs
          /\ pages' = ps
          /\ IF gs = <<>>
             THEN /\ fs' = Remove(fs, tmpl_path)
                  /\ UNCHANGED part_files
             ELSE /\ fs' = Remove(Save(RemoveAll(fs, names), PartName(slide_i),
                                       MergeDocs(page_temps)), tmpl_path)
                  /\ part_files' = Append(part_files, PartName(slide_i))
    /\ slide_i' = slide_i + 1
    /\ UNCHANGED <<data_file, output_path, rows, pc, split_templates, final_prs,
                   ret, xRep>>

\* one iteration of the loop, STATIC: the single-slide template saved as part_i
ProcessStatic ==
    /\ pc = "process"
    /\ slide_i < Len(split_templates)
    /\ CurrentType = "STATIC"
    /\ LET tmpl_path == split_templates[slide_i + 1]
       IN fs' = Remove(Save(fs, PartName(slide_i), fs[tmpl_path]), tmpl_path)
    /\ part_files' = Append(part_files, PartName(slide_i))
    /\ slide_i' = slide_i + 1
    /\ UNCHANGED <<data_file, output_path, rows, pc, split_templates, final_prs,
                   ret, grouped, pages, xRep>>

\* after the loop, no part: return 0
ReturnNoParts ==
    /\ pc = "process"
    /\ slide_i = Len(split_templates)
    /\ part_files = <<>>
    /\ ret' = 0
    /\ pc' = "done"
    /\ UNCHANGED <<data_file, output_path, rows, fs, slide_i, split_templates,
                   part_files, final_prs, grouped, pages, xRep>>

\* after the loop: merge the parts in order and save the output
MergeParts ==
    /\ pc = "process"
    /\ slide_i = Len(split_templates)
    /\ part_files # <<>>
    /\ final_prs' = MergeDocs([n \in 1..Len(part_files) |-> fs[part_files[n]]])
    /\ fs' = Save(fs, output_path, final_prs')
    /\ pc' = "cleanup"
    /\ UNCHANGED <<data_file, output_path, rows, slide_i, split_templates,
                   part_files, ret, grouped, pages, xRep>>

\* remove every part, return len(rows)
CleanupParts ==
    /\ pc = "cleanup"
    /\ fs' = RemoveAll(fs, {part_files[n] : n \in 1..Len(part_files)})
    /\ ret' = Len(rows)
    /\ pc' = "done"
    /\ UNCHANGED <<data_file, output_path, rows, slide_i, split_templates,
                   part_files, final_prs, grouped, pages, xRep>>

Next ==
    \/ ReadData
    \/ SplitTemplate
    \/ ProcessIndividual
    \/ ProcessIndividualRaise
    \/ ProcessSummary
    \/ ProcessStatic
    \/ ReturnNoParts
    \/ MergeParts
    \/ CleanupParts

Spec == Init /\ [][Next]_vars

-----------------------------------------------------------------------------
(* Claims about generate_full_report and the summary pipeline *)

CeilDiv(a, b) == (a + b - 1) \div b

NumGroups(rs) == Cardinality({PairOf(rs[n]) : n \in 1..Len(rs)})

\* the slides one template slide is expected to give
ExpectedPart(slide, r, g) ==
    LET role == detect_template_type(<<slide>>)
    IN IF role = "INDIVIDUAL"
       THEN [k \in 1..r |-> [slide EXCEPT !.kind = "row", !.n = k - 1]]
       ELSE IF role = "SUMMARY"
            THEN [k \in 1..CeilDiv(g, 9) |-> [slide EXCEPT !.kind = "page", !.n = k - 1]]
            ELSE <<slide>>

RECURSIVE ExpectedDoc(_, _, _, _)
ExpectedDoc(tpl, n, r, g) ==
    IF n = 0 THEN <<>>
    ELSE ExpectedDoc(tpl, n - 1, r, g) \o ExpectedPart(tpl[n], r, g)

RECURSIVE Flatten(_)
Flatten(ps) == IF ps = <<>> THEN <<>> ELSE Head(ps) \o Flatten(Tail(ps))

\* C1: once the output is saved, its slides are, in template order, one
\* slide per record for an INDIVIDUAL slide, ceil(G/9) slides for a SUMMARY
\* slide and one slide for a STATIC slide.
C1_OutputSlides ==
    (pc \in {"cleanup", "done"} /\ Len(fs[TemplateName]) >= 1) =>
        /\ final_prs = ExpectedDoc(fs[TemplateName], Len(fs[TemplateName]),
                                   Len(rows), NumGroups(rows))
        /\ pc = "cleanup" => (Exists(fs, output_path) /\ fs[output_path] = final_prs)

\* roles [INDIVIDUAL, SUMMARY, STATIC], 3 records: 5 slides in that order
C1_Witness ==
    /\ pc = "done"
    /\ ret = 3
    /\ Len(fs[TemplateName]) = 3
    /\ detect_template_type(<<fs[TemplateName][1]>>) = "INDIVIDUAL"
    /\ detect_template_type(<<fs[TemplateName][2]>>) = "SUMMARY"
    /\ detect_template_type(<<fs[TemplateName][3]>>) = "STATIC"
    /\ Len(final_prs) = 5
    /\ [n \in 1..5 |-> final_prs[n].kind] = <<"row", "row", "row", "page", "template">>
    /\ [n \in 1..5 |-> final_prs[n].src] = <<0, 0, 0, 1, 2>>

\* C10: N >= 1 groups give ceil(N/9) pages, each but the last of 9 groups, the
\* last of 1 to 9, and the pages in order make up the sorted group list; the
\* part process_summary_template returns holds one slide per page.
C10_Pagination ==
    Len(grouped) >= 1 =>
        /\ Len(pages) = CeilDiv(Len(grouped), 9)
        /\ \A k \in 1..(Len(pages) - 1) : Len(pages[k]) = 9
        /\ Len(pages[Len(pages)]) \in 1..9
        /\ Flatten(pages) = grouped
        /\ pc = "process" => grouped = group_data_for_zhanbao(rows)
        /\ \A n \in 1..Len(part_files) :
               (pc = "process" /\ fs[part_files[n]][1].kind = "page") =>
                   /\ Len(fs[part_files[n]]) = Len(pages)
                   /\ \A k \in 1..Len(pages) : fs[part_files[n]][k].n = k - 1

\* 19 groups: two pages of 9 and a last page of 1
C10_Witness ==
    /\ pc = "done"
    /\ Len(grouped) = 19
    /\ Len(pages) = 3
    /\ Len(pages[1]) = 9
    /\ Len(pages[2]) = 9
    /\ Len(pages[3]) = 1

-----------------------------------------------------------------------------
(* fill_zhanbao_slide.  A table is the sequence of its rows, a row the      *)
(* sequence of its cells, a cell the sequence of its paragraphs, a paragraph *)
(* the sequence of its runs.  The keys are written as one symbol each.       *)

MaxTableRows == 10

\* the while loop of replace_placeholders_in_paragraph from index idx on
RECURSIVE ReplaceFrom(_, _, _)
ReplaceFrom(rs, km, idx) ==
    IF idx >= Len(rs) THEN rs
    ELSE IF IsTriple(rs, idx, km)
         THEN ReplaceFrom(TripleSubst(rs, idx, km), km, AfterTriple(idx))
         ELSE ReplaceFrom([rs EXCEPT ![idx + 1].text = SingleRunReplace(@, km, 1)],
                          km, idx + 1)

replace_placeholders_in_paragraph(paragraph, km) == ReplaceFrom(paragraph, km, 0)

replace_text_in_cell(cell, km) ==
    [p \in 1..Len(cell) |-> replace_placeholders_in_paragraph(cell[p], km)]

KeyBranch == <<"branch_name">>
KeyFund == <<"fund_name">>
KeyTotal == <<"total_sales">>
KeyStart == <<"start_date">>
KeyEnd == <<"end_date">>

date_key_map(start_date, end_date) ==
    <<Item(KeyStart, start_date), Item(KeyEnd, end_date)>>

cell_map(row_data) ==
    <<Item(KeyBranch, row_data.branch.s), Item(KeyFund, row_data.fund.s),
      Item(KeyTotal, row_data.total_str)>>

\* ri < len(page_data): every cell of the row through replace_text_in_cell
FillTableRow(row, row_data) ==
    [ci \in 1..Len(row) |-> replace_text_in_cell(row[ci], cell_map(row_data))]

\* else: r.text = "" for every run of every paragraph of every cell
BlankRow(row) ==
    [ci \in 1..Len(row) |->
        [p \in 1..Len(row[ci]) |->
            [r \in 1..Len(row[ci][p]) |-> [row[ci][p][r] EXCEPT !.text = <<>>]]]]

\* a fill that leaves the rows without data out of the table
FillTableTruncate(table, pd) ==
    IF Len(table) <= 1 THEN table
    ELSE [n \in 1..(IF Len(table) < Len(pd) THEN Len(table) ELSE Len(pd)) |->
             FillTableRow(table[n], pd[n])]

\* the body of `if shape.shape_type == 19` for one table
FillTable(table, pd) ==
    IF Len(table) <= 1 THEN table
    ELSE [n \in 1..Len(table) |->
             IF n - 1 < Len(pd)
             THEN FillTableRow(table[n], pd[n])
             ELSE BlankRow(table[n])]

(* Inputs of the fill specification *)

OneRunCell(text) == <<MakeRuns(<<text>>)>>
TokenCell(key) == OneRunCell(Placeholder(key))
SplitCell(key) == <<MakeRuns(<<OPEN, key, CLOSE>>)>>

TokenRow == <<TokenCell(KeyBranch), TokenCell(KeyFund), TokenCell(KeyTotal)>>
SplitRow == <<SplitCell(KeyBranch), SplitCell(KeyFund), SplitCell(KeyTotal)>>
\* literal text, and a cell whose paragraph has no run
LiteralRow == <<OneRunCell(<<"x">>), <<<<>>>>, OneRunCell(<<"y">>)>>

RowKinds == {TokenRow, SplitRow, LiteralRow}

UniformTable(row, n) == [k \in 1..n |-> row]

DataTables ==
    {UniformTable(row, n) : row \in RowKinds, n \in 0..MaxTableRows}
    \cup {<<LiteralRow>> \o UniformTable(row, n) :
              row \in RowKinds, n \in 1..(MaxTableRows - 1)}

\* the slide holds the data table alone, or after a one-row heading table,
\* or before a table of three rows of literal text
SlideTables ==
    {<<t>> : t \in DataTables}
    \cup {<<(<<LiteralRow>>), t>> : t \in DataTables}
    \cup {<<t, UniformTable(LiteralRow, 3)>> : t \in DataTables}

PageRows(k) ==
    [j \in 1..k |-> [branch |-> Str(<<"B">> \o ToDigits(j)), fund |-> Str(<<"F">>),
                     total_str |-> ToDigits(100 - j) \o SUFFIX]]

TextFrames ==
    { <<>>,
      <<MakeRuns(<<Placeholder(KeyStart), <<"-">>, Placeholder(KeyEnd)>>)>> }

DateRanges == { <<(<<>>), (<<>>)>>, <<(<<"1", ".", "2">>), (<<"1", ".", "5">>)>> }

FillInit ==
    /\ text_frames \in TextFrames
    /\ tables \in SlideTables
    /\ tables0 = tables
    /\ \E k \in 1..ROWS_PER_PAGE_ZHANBAO : page_data = PageRows(k)
    /\ date_range \in DateRanges
    /\ ti = 0
    /\ fpc = "dates"
    /\ dates = <<>>
    /\ di = 0
    /\ dpc = "idle"
    /\ rows = <<>>
    /\ ParaIdle
    /\ AggIdle
    /\ RepIdle
    /\ DetIdle
    /\ CopyIdle
    /\ GuiIdle

\* 1. the dates, in every paragraph of every text frame
FillDates ==
    /\ fpc = "dates"
    /\ text_frames' =
           [p \in 1..Len(text_frames) |->
               replace_placeholders_in_paragraph(
                   text_frames[p], date_key_map(date_range[1], date_range[2]))]
    /\ fpc' = "tables"
    /\ UNCHANGED <<tables, tables0, page_data, ti, xFill>>

\* 2. one iteration of `for shape in slide.shapes` on a table shape
FillNextTable ==
    /\ fpc = "tables"
    /\ ti < Len(tables)
    /\ tables' = [tables EXCEPT ![ti + 1] = FillTable(@, page_data)]
    /\ ti' = ti + 1
    /\ UNCHANGED <<text_frames, tables0, page_data, fpc, xFill>>

FillReturn ==
    /\ fpc = "tables"
    /\ ti = Len(tables)
    /\ fpc' = "done"
    /\ UNCHANGED <<text_frames, tables, tables0, page_data, ti, xFill>>

FillNext == FillDates \/ FillNextTable \/ FillReturn

SpecFill == FillInit /\ [][FillNext]_vars

(* Claims about fill_zhanbao_slide *)

AllRunsEmpty(row) ==
    \A ci \in 1..Len(row) : \A p \in 1..Len(row[ci]) :
        \A r \in 1..Len(row[ci][p]) : row[ci][p][r].text = <<>>

\* the same cells, paragraphs and runs, whatever their texts
SameShape(row, row0) ==
    /\ Len(row) = Len(row0)
    /\ \A ci \in 1..Len(row0) :
           /\ Len(row[ci]) = Len(row0[ci])
           /\ \A p \in 1..Len(row0[ci]) :
                  /\ Len(row[ci][p]) = Len(row0[ci][p])
                  /\ \A r \in 1..Len(row0[ci][p]) :
                         row[ci][p][r].rPr = row0[ci][p][r].rPr

\* C11: fill_zhanbao_slide keeps the number of rows of every table; when it
\* returns, in each table of more than one row every row of index >= k, for
\* the k groups of the page, is still there with every run text empty.
C11_RowsBlankedNotRemoved ==
    /\ Len(tables) = Len(tables0)
    /\ \A t \in 1..Len(tables0) :
           /\ Len(tables[t]) = Len(tables0[t])
           /\ (fpc = "done" /\ Len(tables0[t]) > 1) =>
                  \A n \in 1..Len(tables0[t]) :
                      n - 1 >= Len(page_data) =>
                          /\ AllRunsEmpty(tables[t][n])
                          /\ SameShape(tables[t][n], tables0[t][n])

\* a page of 4 groups in a table of 9 token rows: rows 4..8 blanked
C11_Witness ==
    /\ fpc = "done"
    /\ Len(page_data) = 4
    /\ Len(tables) = 2
    /\ tables0[2] = UniformTable(TokenRow, 9)
    /\ Len(tables[2]) = 9
    /\ tables[2][4][1][1][1].text = <<"B", "4">>
    /\ \A n \in 5..9 : AllRunsEmpty(tables[2][n]) /\ ~AllRunsEmpty(tables0[2][n])

\* the first table of more than one row (0: none)
FirstDataTable(ts) ==
    LET ns == {t \in 1..Len(ts) : Len(ts[t]) > 1}
    IN IF ns = {} THEN 0 ELSE CHOOSE t \in ns : \A u \in ns : t <= u

\* C25: fill_zhanbao_slide fills the first table of more than one row only:
\* every other table of the slide has, when the call returns, the text it had.
C25_OnlyFirstDataTable ==
    fpc = "done" =>
        \A t \in 1..Len(tables0) :
            t # FirstDataTable(tables0) => tables[t] = tables0[t]

\* the text of the first paragraph of a cell
CellText(cell) == Concat(cell[1], 1, Len(cell[1]))

\* a data table of the template: rows holding the three tokens, the first
\* row possibly a heading of literal text
IsTokenTable(table) ==
    /\ Len(table) > 1
    /\ table[1] \in {TokenRow, SplitRow, LiteralRow}
    /\ \A n \in 2..Len(table) : table[n] \in {TokenRow, SplitRow}

\* C28: every group of the page is written in exactly one row of the data
\* table, whatever the number of rows of the table and with or without a
\* heading row.
C28_EveryGroupWrittenOnce ==
    fpc = "done" =>
        \A t \in 1..Len(tables0) :
            (t = FirstDataTable(tables0) /\ IsTokenTable(tables0[t])) =>
                \A j \in 1..Len(page_data) :
                    Cardinality({n \in 1..Len(tables[t]) :
                                    CellText(tables[t][n][1]) = page_data[j].branch.s}) = 1

\* the same for data tables of nine token rows or more, without heading
C28_NineRowsOrMore ==
    fpc = "done" =>
        \A t \in 1..Len(tables0) :
            (t = FirstDataTable(tables0) /\ IsTokenTable(tables0[t])
                 /\ Len(tables0[t]) >= ROWS_PER_PAGE_ZHANBAO
                 /\ tables0[t][1] # LiteralRow) =>
                \A j \in 1..Len(page_data) :
                    Cardinality({n \in 1..Len(tables[t]) :
                                    CellText(tables[t][n][1]) = page_data[j].branch.s}) = 1

-----------------------------------------------------------------------------
(* get_date_range.  A date is <<year, month, day>>. *)

MaxDateRows == 3

SPACE == " "

\* str.strip()
RECURSIVE LStrip(_)
LStrip(s) == IF s # <<>> /\ Head(s) = SPACE THEN LStrip(Tail(s)) ELSE s

RECURSIVE RStrip(_)
RStrip(s) ==
    IF s # <<>> /\ s[Len(s)] = SPACE THEN RStrip(SubSeq(s, 1, Len(s) - 1)) ELSE s

Strip(s) == RStrip(LStrip(s))

\* s.split()[0] of a text that starts with a non-blank character
FirstWord(s) ==
    LET blanks == {n \in 1..Len(s) : s[n] = SPACE}
    IN IF blanks = {} THEN s
       ELSE SubSeq(s, 1, (CHOOSE n \in blanks : \A m \in blanks : n <= m) - 1)

IsLeap(y) == (y % 4 = 0 /\ y % 100 # 0) \/ y % 400 = 0

DaysInMonth(y, m) ==
    IF m = 2 THEN (IF IsLeap(y) THEN 29 ELSE 28)
    ELSE IF m \in {4, 6, 9, 11} THEN 30 ELSE 31

\* %m and %d: one or two digits, not zero
IsField(s) == Len(s) \in 1..2 /\ IsDigits(s) /\ DigitsValue(s) >= 1

\* datetime.strptime(word, "%Y<sep>%m<sep>%d"): [ok, dt]; ok = FALSE is the
\* ValueError
StrpTime(word, sep) ==
    LET bad == [ok |-> FALSE, dt |-> <<0, 0, 0>>]
        rest == SubSeq(word, 6, Len(word))
        seps == {n \in 1..Len(rest) : rest[n] = sep}
    IN IF Len(word) < 8 \/ ~IsDigits(SubSeq(word, 1, 4)) \/ word[5] # sep \/ seps = {}
       THEN bad
       ELSE LET cut == CHOOSE n \in seps : \A m \in seps : n <= m
                mt == SubSeq(rest, 1, cut - 1)
                dt == SubSeq(rest, cut + 1, Len(rest))
                y == DigitsValue(SubSeq(word, 1, 4))
            IN IF IsField(mt) /\ IsField(dt) /\ y >= 1
                  /\ DigitsValue(mt) <= 12
                  /\ DigitsValue(dt) <= DaysInMonth(y, DigitsValue(mt))
               THEN [ok |-> TRUE, dt |-> <<y, DigitsValue(mt), DigitsValue(dt)>>]
               ELSE bad

\* the separators of the formats, in the order they are tried (the two
\* formats with a time repeat the first two once cut at the blank)
FormatSeps == <<"/", "-", ".", "/", "-">>

\* for fmt in (...): try strptime / break; except ValueError: continue
RECURSIVE TryFormats(_, _)
TryFormats(word, n) ==
    IF n > Len(FormatSeps) THEN [ok |-> FALSE, dt |-> <<0, 0, 0>>]
    ELSE IF StrpTime(word, FormatSeps[n]).ok THEN StrpTime(word, FormatSeps[n])
         ELSE TryFormats(word, n + 1)

\* a < b on datetimes
DateLess(a, b) ==
    \/ a[1] < b[1]
    \/ a[1] = b[1] /\ a[2] < b[2]
    \/ a[1] = b[1] /\ a[2] = b[2] /\ a[3] < b[3]

MinDate(ds) ==
    CHOOSE a \in {ds[n] : n \in 1..Len(ds)} : \A n \in 1..Len(ds) : ~DateLess(ds[n], a)

MaxDate(ds) ==
    CHOOSE a \in {ds[n] : n \in 1..Len(ds)} : \A n \in 1..Len(ds) : ~DateLess(a, ds[n])

\* f"{dt.month}.{dt.day}"
MonthDay(dt) == ToDigits(dt[2]) \o <<".">> \o ToDigits(dt[3])

(* Inputs of the date specification: the texts of the date column, each    *)
(* with the date Python's strptime reads from it (ok = FALSE: none)         *)

DateCases ==
    {
      [text |-> <<"2", "0", "2", "6", "/", "1", "/", "2">>,
       ok |-> TRUE, dt |-> <<2026, 1, 2>>],
      [text |-> <<"2", "0", "2", "6", "-", "1", "-", "5">>,
       ok |-> TRUE, dt |-> <<2026, 1, 5>>],
      [text |-> <<"2", "0", "2", "6", ".", "1", ".", "3">>,
       ok |-> TRUE, dt |-> <<2026, 1, 3>>],
      [text |-> <<"2", "0", "2", "5", "/", "1", "2", "/", "3", "1">>,
       ok |-> TRUE, dt |-> <<2025, 12, 31>>],
      [text |-> <<>>,
       ok |-> FALSE, dt |-> <<0, 0, 0>>],
      [text |-> <<"x">>,
       ok |-> FALSE, dt |-> <<0, 0, 0>>],
      [text |-> <<"2", "0", "2", "6", "/", "1", "-", "2">>,
       ok |-> FALSE, dt |-> <<0, 0, 0>>],
      [text |-> <<" ", "2", "0", "2", "6", "/", "1", "/", "4", " ">>,
       ok |-> TRUE, dt |-> <<2026, 1, 4>>],
      [text |-> <<"2", "0", "2", "6", "-", "0", "1", "-", "0", "2", " ", "0", "0", ":", "0", "0", ":", "0", "0">>,
       ok |-> TRUE, dt |-> <<2026, 1, 2>>],
      [text |-> <<"2", "0", "2", "6", "/", "2", "/", "3", "0">>,
       ok |-> FALSE, dt |-> <<0, 0, 0>>],
      [text |-> <<"2", "0", "2", "4", "/", "2", "/", "2", "9">>,
       ok |-> TRUE, dt |-> <<2024, 2, 29>>],
      [text |-> <<"2", "0", "2", "6", "/", "1", "3", "/", "1">>,
       ok |-> FALSE, dt |-> <<0, 0, 0>>] }

DateFields == {Str(c.text) : c \in DateCases} \cup {NoneValue, Missing}

DateRows == UNION { [1..n -> [date : DateFields]] : n \in 0..MaxDateRows }

DateInit ==
    /\ rows \in DateRows
    /\ dates = <<>>
    /\ di = 0
    /\ date_range = <<>>
    /\ dpc = "scan"
    /\ ParaIdle
    /\ AggIdle
    /\ RepIdle
    /\ FillIdle
    /\ DetIdle
    /\ CopyIdle
    /\ GuiIdle

\* one iteration of `for row in rows`
DateRow ==
    /\ dpc = "scan"
    /\ di < Len(rows)
    /\ LET f == RowGet(rows[di + 1].date, <<>>)
       IN /\ f.k # "none"
          /\ LET date_str == Strip(f.s)
                 p == TryFormats(FirstWord(date_str), 1)
             IN dates' = IF date_str # <<>> /\ p.ok THEN Append(dates, p.dt) ELSE dates
    /\ di' = di + 1
    /\ UNCHANGED <<rows, date_range, dpc, xDate>>

\* row.get(...) is None: None.strip raises AttributeError
DateRaise ==
    /\ dpc = "scan"
    /\ di < Len(rows)
    /\ RowGet(rows[di + 1].date, <<>>).k = "none"
    /\ dpc' = "raised"
    /\ UNCHANGED <<rows, dates, di, date_range, xDate>>

DateReturn ==
    /\ dpc = "scan"
    /\ di = Len(rows)
    /\ date_range' = IF dates = <<>> THEN <<(<<>>), (<<>>)>>
                     ELSE <<MonthDay(MinDate(dates)), MonthDay(MaxDate(dates))>>
    /\ dpc' = "done"
    /\ UNCHANGED <<rows, dates, di, xDate>>

DateNext == DateRow \/ DateRaise \/ DateReturn

SpecDates == DateInit /\ [][DateNext]_vars

(* Claims about get_date_range *)

\* what the date column of a record holds, read off DateCases
CaseOf(row) ==
    IF row.date.k = "str"
    THEN CHOOSE c \in DateCases : c.text = row.date.s
    ELSE [text |-> <<>>, ok |-> FALSE, dt |-> <<0, 0, 0>>]

Parseable(rs) == {CaseOf(rs[n]).dt : n \in {m \in 1..Len(rs) : CaseOf(rs[m]).ok}}

DayNumber(dt) == dt[1] * 372 + dt[2] * 31 + dt[3]

Earliest(ds) == CHOOSE a \in ds : \A b \in ds : DayNumber(a) <= DayNumber(b)
Latest(ds) == CHOOSE a \in ds : \A b \in ds : DayNumber(a) >= DayNumber(b)

\* C12: get_date_range raises no error; it returns ("", "") when no record
\* has a parseable date, and otherwise the month.day of the earliest and of
\* the latest parseable date.
C12_DateRange ==
    /\ dpc # "raised"
    /\ dpc = "done" =>
           IF Parseable(rows) = {}
           THEN date_range = <<(<<>>), (<<>>)>>
           ELSE date_range =
                    <<ToDigits(Earliest(Parseable(rows))[2]) \o <<".">>
                          \o ToDigits(Earliest(Parseable(rows))[3]),
                      ToDigits(Latest(Parseable(rows))[2]) \o <<".">>
                          \o ToDigits(Latest(Parseable(rows))[3])>>

\* the same for the record lists in which every date is a text
C12_DateRangeOfTexts ==
    (\A n \in 1..Len(rows) : rows[n].date.k # "none") => C12_DateRange

\* "2026/1/2", "2026-1-5", "2026.1.3" give ("1.2", "1.5")
C12_Example ==
    /\ dpc = "done"
    /\ Len(rows) = 3
    /\ CaseOf(rows[1]).dt = <<2026, 1, 2>> /\ Len(rows[1].date.s) = 8
    /\ CaseOf(rows[2]).dt = <<2026, 1, 5>>
    /\ CaseOf(rows[3]).dt = <<2026, 1, 3>>
    /\ date_range = <<(<<"1", ".", "2">>), (<<"1", ".", "5">>)>>

-----------------------------------------------------------------------------
(* detect_template_type on a single-slide document, as generate_full_report *)
(* calls it: every set of the known tokens, with or without another token   *)

KnownTokens ==
    {"branch_name", "manager_name", "sale_amount", "fund_name",
     "start_date", "end_date", "total_sales"}

DetectInit ==
    /\ \E tokens \in SUBSET (KnownTokens \cup {"other"}) :
           det_prs = MakeTemplate(<<tokens>>)
    /\ det_type = ""
    /\ rows = <<>>
    /\ ParaIdle
    /\ AggIdle
    /\ RepIdle
    /\ FillIdle
    /\ DateIdle
    /\ CopyIdle
    /\ GuiIdle

Detect ==
    /\ det_type = ""
    /\ det_type' = detect_template_type(det_prs)
    /\ UNCHANGED <<det_prs, xDet>>

DetectNext == Detect

SpecDetect == DetectInit /\ [][DetectNext]_vars

(* Claims about detect_template_type *)

\* the keys of FIELD_MAP
PerRecordTokens == {"branch_name", "manager_name", "sale_amount", "fund_name"}
SummaryDateTokens == {"start_date", "end_date"}
SummaryOnlyTokens == {"start_date", "end_date", "total_sales"}

Holds(tokens) == det_prs[1].tokens \cap tokens # {}

\* C13: a slide with a per-record token and no summary-date token is
\* classified INDIVIDUAL.
C13_PerRecordIsIndividual ==
    (det_type # "" /\ Holds(PerRecordTokens) /\ ~Holds(SummaryDateTokens)) =>
        det_type = "INDIVIDUAL"

\* C14: a slide with a per-record token and a summary token is classified
\* SUMMARY.
C14_BothIsSummary ==
    (det_type # "" /\ Holds(PerRecordTokens) /\ Holds(SummaryOnlyTokens)) =>
        det_type = "SUMMARY"

\* C15: a slide with no per-record token is classified SUMMARY if it holds a
\* summary-only token and STATIC otherwise; STATIC is the answer exactly when
\* the slide holds none of the known tokens.
C15_SummaryElseStatic ==
    det_type # "" =>
        /\ ~Holds(PerRecordTokens) =>
               det_type = (IF Holds(SummaryOnlyTokens) THEN "SUMMARY" ELSE "STATIC")
        /\ det_type = "STATIC" <=> ~Holds(PerRecordTokens \cup SummaryOnlyTokens)

-----------------------------------------------------------------------------
(* Claims about the splitter, the merger and the files of a run *)

RECURSIVE SlidesBefore(_, _)
SlidesBefore(docs, n) ==
    IF n <= 1 THEN 0 ELSE SlidesBefore(docs, n - 1) + Len(docs[n - 1])

\* C17: copy_slides_from_pptx appends every slide of the source, in order,
\* after the slides the destination has, which stay as and where they are:
\* merging the parts gives a document whose slides are those of the first
\* part, then those of the second, and so on.
C17_AppendsInOrder ==
    [][(pc = "process" /\ pc' = "cleanup") =>
          LET parts == [n \in 1..Len(part_files) |-> fs[part_files[n]]]
          IN /\ Len(final_prs') = SlidesBefore(parts, Len(parts) + 1)
             /\ \A n \in 1..Len(parts) : \A k \in 1..Len(parts[n]) :
                    final_prs'[SlidesBefore(parts, n) + k] = parts[n][k]]_vars

\* three parts merged, the second and the third of several slides
C17_Witness ==
    /\ pc = "cleanup"
    /\ Len(part_files) = 3
    /\ \A n \in 1..3 : Exists(fs, part_files[n])
    /\ Len(fs[part_files[1]]) = 1
    /\ Len(fs[part_files[2]]) = 2
    /\ Len(fs[part_files[3]]) = 2
    /\ Len(final_prs) = 5
    /\ final_prs[1] = fs[part_files[1]][1]
    /\ final_prs[3] = fs[part_files[2]][2]
    /\ final_prs[4] = fs[part_files[3]][1]

IsIntermediate(name) ==
    name[1] \in {"_split_template", "_part_row", "_part_page", "part"}

\* C18: when generate_full_report has returned, no split, row, page or part
\* file is on disk: nothing is left but the template and the output, and the
\* output is there when its name is not the name of a part.
C18_NoIntermediateLeft ==
    (pc = "done" /\ ret >= 0) =>
        /\ \A name \in DOMAIN fs : ~IsIntermediate(name)
        /\ DOMAIN fs \subseteq {TemplateName, output_path}
        /\ (ret > 0 /\ ~IsIntermediate(output_path)) => Exists(fs, output_path)

\* a run over slides of the three roles has returned
C18_Witness ==
    /\ pc = "done"
    /\ ret = 2
    /\ Len(split_templates) = 3
    /\ {detect_template_type(<<fs[TemplateName][n]>>) : n \in 1..3}
           = {"INDIVIDUAL", "SUMMARY", "STATIC"}
    /\ DOMAIN fs = {TemplateName, output_path}
    /\ Len(fs[output_path]) = 4

C20_FailsBeforeWriting ==
    [][(pc = "read" /\ (data_file.ext \notin {".csv", ".xlsx", ".xls"}
                         \/ data_file.records = <<>>)) =>
          /\ pc' = "error"
          /\ fs' = fs
          /\ split_templates' = <<>>
          /\ part_files' = <<>>]_vars

\* the run on a .txt file has failed, the template of three slides untouched
C20_Witness ==
    /\ pc = "error"
    /\ data_file.ext = ".txt"
    /\ data_file.records # <<>>
    /\ rows = <<>>
    /\ DOMAIN fs = {TemplateName}
    /\ Len(fs[TemplateName]) = 3

\* C21: whenever a file is at the output path, it is the complete merged
\* document, with the slides of every part.
C21_NoPartialOutput ==
    Exists(fs, output_path) =>
        fs[output_path] = ExpectedDoc(fs[TemplateName], Len(fs[TemplateName]),
                                      Len(rows), NumGroups(rows))

\* C29: after generate_full_report has returned the number of records, the
\* file at the output path exists and holds the merged document.
C29_OutputSurvivesCleanup ==
    (pc = "done" /\ ret > 0) =>
        /\ Exists(fs, output_path)
        /\ fs[output_path] = final_prs

-----------------------------------------------------------------------------
(* copy_slides_from_pptx: the relationships and the references of one slide *)

MaxRels == 3
MaxAttrs == 2

\* the relationship to the layout, which every slide has
LayoutRel == [reltype |-> "slideLayout", target |-> "L", external |-> FALSE]

\* the other relationships of a source slide: two pictures, and a hyperlink
\* whose target is external
OtherRels ==
    {[reltype |-> "image", target |-> "P", external |-> FALSE],
     [reltype |-> "image", target |-> "Q", external |-> FALSE],
     [reltype |-> "hyperlink", target |-> "U", external |-> TRUE]}

\* the ids a relationship or a reference can have
RelIds == 1..(MaxRels + 1)

\* the relationships of a source slide in the order of the dict: one layout
\* and up to MaxRels others, with ids that differ
SourceRels ==
    UNION {{[k \in 1..n |-> [rId |-> ids[k], reltype |-> kinds[k].reltype,
                             target |-> kinds[k].target,
                             external |-> kinds[k].external]] :
               ids \in {p \in [1..n -> 1..n] : \A a, b \in 1..n : a # b => p[a] # p[b]},
               kinds \in {s \in [1..n -> OtherRels \cup {LayoutRel}] :
                             Cardinality({a \in 1..n : s[a] = LayoutRel}) = 1}} :
           n \in 1..(MaxRels + 1)}

\* the attributes of the copied elements: in the relationship namespace
\* ("r") or not ("a"), with the value an id
SourceAttrs ==
    UNION {[1..n -> [ns : {"r", "a"}, value : RelIds]] : n \in 0..MaxAttrs}

\* dict d with d[k] = v
DictSet(d, k, v) ==
    [x \in DOMAIN d \cup {k} |-> IF x = k THEN v ELSE d[x]]

\* Part.relate_to(target, reltype): the id of the relationship of that type
\* to that target, added under the first free id when there is none
relate_to(rels, rel) ==
    LET same == {k \in 1..Len(rels) : /\ rels[k].reltype = rel.reltype
                                      /\ rels[k].target = rel.target
                                      /\ ~rels[k].external}
        used == {rels[k].rId : k \in 1..Len(rels)}
        free == CHOOSE n \in 1..(Len(rels) + 1) :
                    /\ n \notin used
                    /\ \A m \in 1..(n - 1) : m \in used
    IN  IF same # {}
        THEN [rId |-> rels[CHOOSE k \in same : TRUE].rId, rels |-> rels]
        ELSE [rId |-> free,
              rels |-> Append(rels, [rId |-> free, reltype |-> rel.reltype,
                                     target |-> rel.target, external |-> FALSE])]

\* the attribute followed twice through the map
RewriteChained(map, attr) ==
    LET once == IF attr.ns = "r" /\ attr.value \in DOMAIN map
                THEN [attr EXCEPT !.value = map[attr.value]]
                ELSE attr
    IN  IF once.ns = "r" /\ once.value \in DOMAIN map
        THEN [once EXCEPT !.value = map[once.value]]
        ELSE once

\* the body of the loop over the attributes of an element
Rewrite(map, attr) ==
    IF attr.ns = "r" /\ attr.value \in DOMAIN map
    THEN [attr EXCEPT !.value = map[attr.value]]
    ELSE attr

\* the new slide has been added with its layout and emptied
CopyInit ==
    /\ src_rels \in SourceRels
    /\ new_rels = <<[rId |-> 1, reltype |-> "slideLayout", target |-> "L",
                     external |-> FALSE]>>
    /\ rId_map = <<>>
    /\ attrs0 \in SourceAttrs
    /\ attrs = attrs0
    /\ cr = 0
    /\ ca = 0
    /\ cpc = "rels"
    /\ rows = <<>>
    /\ ParaIdle
    /\ AggIdle
    /\ RepIdle
    /\ FillIdle
    /\ DateIdle
    /\ DetIdle
    /\ GuiIdle

\* one turn of the loop over the relationships: the layout is skipped, the
\* ValueError of an external target is caught
CopyRel ==
    /\ cpc = "rels"
    /\ cr < Len(src_rels)
    /\ LET rel == src_rels[cr + 1]
           made == relate_to(new_rels, rel)
       IN  IF rel.reltype = "slideLayout" \/ rel.external
           THEN UNCHANGED <<new_rels, rId_map>>
           ELSE /\ new_rels' = made.rels
                /\ rId_map' = DictSet(rId_map, rel.rId, made.rId)
    /\ cr' = cr + 1
    /\ UNCHANGED <<src_rels, attrs, attrs0, ca, cpc, xCopy>>

\* the relationships are done, the elements are copied
CopyContent ==
    /\ cpc = "rels"
    /\ cr = Len(src_rels)
    /\ cpc' = "attrs"
    /\ UNCHANGED <<src_rels, new_rels, rId_map, attrs, attrs0, cr, ca, xCopy>>

\* one turn of the loop over the attributes
CopyAttr ==
    /\ cpc = "attrs"
    /\ ca < Len(attrs)
    /\ attrs' = [attrs EXCEPT ![ca + 1] = Rewrite(rId_map, attrs[ca + 1])]
    /\ ca' = ca + 1
    /\ UNCHANGED <<src_rels, new_rels, rId_map, attrs0, cr, cpc, xCopy>>

CopyReturn ==
    /\ cpc = "attrs"
    /\ ca = Len(attrs)
    /\ cpc' = "done"
    /\ UNCHANGED <<src_rels, new_rels, rId_map, attrs, attrs0, cr, ca, xCopy>>

CopyNext == CopyRel \/ CopyContent \/ CopyAttr \/ CopyReturn

SpecCopy == CopyInit /\ [][CopyNext]_vars

(* Claims about copy_slides_from_pptx *)

\* the relationships of the source slide that can be created on the new slide
Creatable(rel) == rel.reltype # "slideLayout" /\ ~rel.external

\* C26: when the slide has been copied, the map holds exactly the
\* relationships that could be created, each under the id of a relationship
\* of the new slide of the same type and target; every attribute of the
\* relationship namespace whose value is in the map holds the mapped id of
\* its value in the source, and every other attribute is as in the source.
C26_ReferencesRewrittenOnce ==
    cpc = "done" =>
        /\ \A k \in 1..Len(src_rels) :
               LET rel == src_rels[k]
               IN  IF Creatable(rel)
                   THEN /\ rel.rId \in DOMAIN rId_map
                        /\ \E j \in 1..Len(new_rels) :
                               /\ new_rels[j].rId = rId_map[rel.rId]
                               /\ new_rels[j].reltype = rel.reltype
                               /\ new_rels[j].target = rel.target
                   ELSE rel.rId \notin DOMAIN rId_map
        /\ Len(attrs) = Len(attrs0)
        /\ \A j \in 1..Len(attrs) :
               IF attrs0[j].ns = "r" /\ attrs0[j].value \in DOMAIN rId_map
               THEN attrs[j] = [ns |-> "r", value |-> rId_map[attrs0[j].value]]
               ELSE attrs[j] = attrs0[j]

\* the copy is done of a slide with a hyperlink that could not be created and
\* a picture whose new id is the old id of another picture; one reference
\* names that picture and another the hyperlink
C26_Witness ==
    /\ cpc = "done"
    /\ \E k \in 1..Len(src_rels) : src_rels[k].external
    /\ \E j \in 1..Len(attrs) :
           /\ attrs0[j].ns = "r"
           /\ attrs0[j].value \in DOMAIN rId_map
           /\ rId_map[attrs0[j].value] \in DOMAIN rId_map
           /\ rId_map[rId_map[attrs0[j].value]] # rId_map[attrs0[j].value]
    /\ \E j \in 1..Len(attrs) :
           /\ attrs0[j].ns = "r"
           /\ \E k \in 1..Len(src_rels) :
                  src_rels[k].external /\ src_rels[k].rId = attrs0[j].value

-----------------------------------------------------------------------------
(* The GUI: the generate buttons, the worker threads and the callbacks that  *)
(* the workers queue for the thread of the interface with root.after. A     *)
(* handler of the interface runs to its end before the next event is taken, *)
(* and Tk does not call the command of a button whose state is disabled.    *)

MaxClicks == 3
MaxSteps == 2

\* the programs: generate_all.py, generate_with_images.py, generate_xibao.py
Apps == {"all", "images", "xibao"}

\* what _on_generate finds before it starts the worker
PreChecks(a) ==
    IF a = "xibao"
    THEN {"no_template", "no_data", "ok"}
    ELSE {"no_template", "no_data", "no_rows", "read_error", "ok"}

\* the button left as it is when the worker starts
GeneratingNormal == "normal"

\* the state given to the generate button when the worker starts
Generating == "disabled"

\* the thread started by the click number n
Worker(kind, n) == [id |-> n, kind |-> kind, step |-> 0]

GuiInit ==
    /\ app \in Apps
    /\ export_imgs = FALSE
    /\ gen_btn = "normal"
    /\ gen_zb_btn = IF app = "xibao" THEN "normal" ELSE "none"
    /\ workers = {}
    /\ after_q = <<>>
    /\ clicks = 0
    /\ progress = 0
    /\ status = "ready"
    /\ rows = <<>>
    /\ ParaIdle
    /\ AggIdle
    /\ RepIdle
    /\ FillIdle
    /\ DateIdle
    /\ DetIdle
    /\ CopyIdle

\* the check box of the image variant is clicked
ToggleExport ==
    /\ app = "images"
    /\ export_imgs' = ~export_imgs
    /\ UNCHANGED <<app, gen_btn, gen_zb_btn, workers, after_q, clicks, progress,
                   status, xGui>>

\* _on_generate: a click on the generate button
OnGenerate ==
    /\ gen_btn = "normal"
    /\ clicks < MaxClicks
    /\ clicks' = clicks + 1
    /\ \E found \in PreChecks(app) :
           IF found = "ok"
           THEN /\ gen_btn' = Generating
                /\ gen_zb_btn' = IF app = "xibao" THEN "disabled" ELSE gen_zb_btn
                /\ progress' = 0
                /\ status' = IF app = "images" THEN "init" ELSE status
                /\ workers' = workers \cup {Worker("generate", clicks + 1)}
           ELSE UNCHANGED <<gen_btn, gen_zb_btn, progress, status, workers>>
    /\ UNCHANGED <<app, export_imgs, after_q, xGui>>

\* _on_generate_zhanbao of XibaoApp: a click on the second button
OnGenerateZhanbao ==
    /\ app = "xibao"
    /\ gen_zb_btn = "normal"
    /\ clicks < MaxClicks
    /\ clicks' = clicks + 1
    /\ \E found \in PreChecks(app) :
           IF found = "ok"
           THEN /\ gen_zb_btn' = "disabled"
                /\ gen_btn' = "disabled"
                /\ progress' = 0
                /\ workers' = workers \cup {Worker("zhanbao", clicks + 1)}
           ELSE UNCHANGED <<gen_btn, gen_zb_btn, progress, workers>>
    /\ UNCHANGED <<app, export_imgs, after_q, status, xGui>>

\* _update_progress, called by the worker in the course of the generation
UpdateProgress ==
    /\ \E w \in workers :
           /\ w.kind # "convert"
           /\ w.step < MaxSteps
           /\ workers' = (workers \ {w}) \cup {[w EXCEPT !.step = w.step + 1]}
           /\ progress' = ((w.step + 1) * 100) \div MaxSteps
    /\ status' = "running"
    /\ UNCHANGED <<app, export_imgs, gen_btn, gen_zb_btn, after_q, clicks, xGui>>

\* run(): the generation has returned, the worker queues its callback and ends
WorkerReturn ==
    /\ \E w \in workers :
           /\ w.kind # "convert"
           /\ workers' = workers \ {w}
    /\ after_q' = Append(after_q, IF app = "images" THEN "on_ppt_done" ELSE "on_done")
    /\ UNCHANGED <<app, export_imgs, gen_btn, gen_zb_btn, clicks, progress, status, xGui>>

\* run(): the generation has raised, the worker queues _on_error and ends
WorkerRaise ==
    /\ \E w \in workers :
           /\ w.kind # "convert"
           /\ workers' = workers \ {w}
    /\ after_q' = Append(after_q, "on_error")
    /\ UNCHANGED <<app, export_imgs, gen_btn, gen_zb_btn, clicks, progress, status, xGui>>

\* _on_done
OnDone ==
    /\ after_q # <<>>
    /\ Head(after_q) = "on_done"
    /\ after_q' = Tail(after_q)
    /\ gen_btn' = "normal"
    /\ gen_zb_btn' = IF app = "xibao" THEN "normal" ELSE gen_zb_btn
    /\ progress' = 100
    /\ status' = "done"
    /\ UNCHANGED <<app, export_imgs, workers, clicks, xGui>>

\* _on_error
OnError ==
    /\ after_q # <<>>
    /\ Head(after_q) = "on_error"
    /\ after_q' = Tail(after_q)
    /\ gen_btn' = "normal"
    /\ gen_zb_btn' = IF app = "xibao" THEN "normal" ELSE gen_zb_btn
    /\ progress' = 0
    /\ status' = "error"
    /\ UNCHANGED <<app, export_imgs, workers, clicks, xGui>>

\* _on_ppt_done of the image variant: done, or the export thread is started
OnPptDone ==
    /\ after_q # <<>>
    /\ Head(after_q) = "on_ppt_done"
    /\ after_q' = Tail(after_q)
    /\ IF ~export_imgs
       THEN /\ gen_btn' = "normal"
            /\ progress' = 100
            /\ status' = "done"
            /\ UNCHANGED workers
       ELSE /\ status' = "exporting"
            /\ workers' = workers \cup {Worker("convert", clicks)}
            /\ UNCHANGED <<gen_btn, progress>>
    /\ UNCHANGED <<app, export_imgs, gen_zb_btn, clicks, xGui>>

\* _convert_to_images_thread: the export has succeeded
ConvertReturn ==
    /\ \E w \in workers :
           /\ w.kind = "convert"
           /\ workers' = workers \ {w}
    /\ after_q' = Append(after_q, "finish_all")
    /\ UNCHANGED <<app, export_imgs, gen_btn, gen_zb_btn, clicks, progress, status, xGui>>

\* _convert_to_images_thread: the export has raised
ConvertRaise ==
    /\ \E w \in workers :
           /\ w.kind = "convert"
           /\ workers' = workers \ {w}
    /\ after_q' = after_q \o <<"showwarning", "finish_all">>
    /\ UNCHANGED <<app, export_imgs, gen_btn, gen_zb_btn, clicks, progress, status, xGui>>

\* the warning queued by the export thread is shown and closed
ShowWarning ==
    /\ after_q # <<>>
    /\ Head(after_q) = "showwarning"
    /\ after_q' = Tail(after_q)
    /\ UNCHANGED <<app, export_imgs, gen_btn, gen_zb_btn, workers, clicks, progress,
                   status, xGui>>

\* _finish_all
FinishAll ==
    /\ after_q # <<>>
    /\ Head(after_q) = "finish_all"
    /\ after_q' = Tail(after_q)
    /\ gen_btn' = "normal"
    /\ progress' = 100
    /\ status' = "done"
    /\ UNCHANGED <<app, export_imgs, gen_zb_btn, workers, clicks, xGui>>

GuiNext ==
    \/ ToggleExport
    \/ OnGenerate
    \/ OnGenerateZhanbao
    \/ UpdateProgress
    \/ WorkerReturn
    \/ WorkerRaise
    \/ OnDone
    \/ OnError
    \/ OnPptDone
    \/ ConvertReturn
    \/ ConvertRaise
    \/ ShowWarning
    \/ FinishAll

SpecGui == GuiInit /\ [][GuiNext]_vars

(* Claims about the GUI *)

\* a run is in progress: a worker is running or its callbacks are yet to run
RunInProgress == workers # {} \/ after_q # <<>>

\* every generate button of the window has the state s
Buttons(s) == gen_btn = s /\ (app = "xibao" => gen_zb_btn = s)

\* C27: at most one worker is running; while a worker is running or its
\* callbacks are yet to run, the generate buttons are disabled; when no run
\* is in progress, after a success as after a failure, they are enabled.
C27_OneWorkerAtATime ==
    /\ Cardinality(workers) <= 1
    /\ RunInProgress => Buttons("disabled")
    /\ ~RunInProgress => Buttons("normal")

\* a worker is running after an earlier run has failed and the button has
\* been enabled again
C27_Witness ==
    /\ workers # {}
    /\ clicks >= 2
    /\ status = "error"
    /\ Buttons("disabled")

\* the export thread of the image variant is running in a later run
C27_ExportWitness ==
    /\ \E w \in workers : w.kind = "convert"
    /\ clicks >= 2
    /\ gen_btn = "disabled"

=============================================================================
